---- MODULE Spec2Model ----
(***************************************************************************)
(* Model of IGCLI (src/cli.py): the session state of the IGCLI object, the *)
(* module-level stop signal `stop_threads`, and the RepeatTimer threads    *)
(* that poll it.  Main-thread operations are the public methods of IGCLI;  *)
(* each RepeatTimer thread is a small state machine over the lines of      *)
(* RepeatTimer.run.                                                        *)
(***************************************************************************)
EXTENDS Naturals, Integers, Sequences, FiniteSets, TLC

\* ------------------------------------------------------------------------
\* Bounds
\* ------------------------------------------------------------------------

\* number of times start_threads may create a set of four threads
MaxGen == 2
\* number of Event objects that may exist (the module-level one included)
MaxEvents == 2

\* ------------------------------------------------------------------------
\* Values
\* ------------------------------------------------------------------------

\* Python's None, as the value of a string-valued attribute
None == "None"

\* Python's None, as the value of a thread handle or of the global stop_threads
NoRef == 0

\* account identifiers the operator may type
Identifiers == {"u1", "u2"}

\* the four session refresh loops, in the order start_threads creates them
Kinds == <<"positions", "activity", "orders", "trackers">>

KindSet == {Kinds[i] : i \in 1..Len(Kinds)}

\* the interval of the status RepeatTimer
StatusInterval == 1

\* the list object held by config_default['tracked'], and the list object a
\* yaml load creates for an account entry that has a 'tracked' key
DefaultList == "L0"

LoadedList == "L1"

\* the function with the empty domain: Python's {}
EmptyDict == [k \in {} |-> None]

\* class attribute IGCLI.config_default (as constructed)
ConfigDefaultInit == [refresh |-> 5, currency |-> "USD", tracked |-> DefaultList]

\* what the store file can hold at a load: no file (open fails), a falsy
\* document, or a non-empty document, given by the entry
\* loaded.get(self._id, {}) of the account
FullEntry == [refresh |-> 2, currency |-> "GBP", tracked |-> LoadedList,
              alias |-> [a \in {"p"} |-> <<"update">>]]

PartialEntry == [refresh |-> 2]

Loaded == {[file |-> "missing"], [file |-> "empty"],
           [file |-> "doc", entry |-> EmptyDict],
           [file |-> "doc", entry |-> PartialEntry],
           [file |-> "doc", entry |-> FullEntry]}

\* the epics the store holds in the 'tracked' list of a full entry
StoredTracked == <<"e1">>

VARIABLES
    authd,             \* IGCLI.authd
    _id,               \* IGCLI._id
    config,            \* IGCLI.config: a dict, keys -> values
    config_default,    \* IGCLI.config_default (class attribute, mutable)
    heap,              \* list objects: reference -> sequence of epics
    client,            \* IGCLI.client
    positions_thread,  \* the four thread handles: None or a thread id
    activity_thread,
    orders_thread,
    trackers_thread,
    stop_threads,      \* the module global: None or an Event id
    events,            \* Event objects: events[e] is the flag of Event e
    threads,           \* RepeatTimer objects: sequence of records
    exited,            \* event.app.exit() has been called
    session,           \* history: the identifier logged in, None after logout
    last,              \* history: the last main-thread call and how it ended
    line,              \* history: the input line of the last parse call
    obs                \* history: what the last command handler call did

handles == <<positions_thread, activity_thread, orders_thread, trackers_thread>>

sessionVars == <<authd, _id, config, config_default, heap, client>>

signalVars == <<stop_threads, events>>

vars == <<authd, _id, config, config_default, heap, client,
          positions_thread, activity_thread, orders_thread, trackers_thread,
          stop_threads, events, threads, exited, session, last, line, obs>>

\* the history variables of the command interpreter
cmdVars == <<line, obs>>

\* ------------------------------------------------------------------------
\* RepeatTimer
\* ------------------------------------------------------------------------

\* RepeatTimer.__init__: a thread object that has not yet evaluated line 58
RepeatTimer(func, interval, g) ==
    [func |-> func, interval |-> interval, gen |-> g, pc |-> "load", ev |-> NoRef]

Tids == 1..Len(threads)

\* every thread id the bounds allow
ThreadIds == 1..(1 + 4 * MaxGen)

\* Event.set() on Event e: the flag is set and every thread blocked in
\* e.wait() is released; its wait() returns True, `not True` ends the while
\* loop of run() and the thread terminates without another shared access,
\* so the released threads are retired in the step that sets the flag
Released(ths, e) ==
    [t \in DOMAIN ths |->
        IF ths[t].pc = "wait" /\ ths[t].ev = e
        THEN [ths[t] EXCEPT !.pc = "dead", !.ev = NoRef]
        ELSE ths[t]]

Alive(t) == threads[t].pc # "dead"

\* ------------------------------------------------------------------------
\* The status line
\* ------------------------------------------------------------------------

\* str(x) inside the f-string of line 177
Str(x) == x

\* IGCLI.status, without the leading timestamp: the words after 'Status:'
status ==
    IF ~authd
    THEN <<"Offline", "|">>
    ELSE <<"Online", "|", "ID:", Str(_id)>>

\* ------------------------------------------------------------------------
\* Initial state: IGCLI.__init__ with no IG_* environment variables
\* ------------------------------------------------------------------------

Init ==
    /\ authd = FALSE
    /\ _id = None
    /\ config = EmptyDict
    /\ config_default = ConfigDefaultInit
    /\ heap = [l \in {DefaultList, LoadedList} |-> <<>>]
    /\ client = None
    /\ positions_thread = NoRef
    /\ activity_thread = NoRef
    /\ orders_thread = NoRef
    /\ trackers_thread = NoRef
    /\ stop_threads = 1
    /\ events = <<FALSE>>
    /\ threads = <<RepeatTimer("status", StatusInterval, 0)>>
    /\ exited = FALSE
    /\ session = None
    /\ last = [op |-> "__init__", res |-> "None"]
    /\ line = [via |-> "none", text |-> <<>>]
    /\ obs = [handler |-> "none", args |-> <<>>, msgs |-> <<>>, calls |-> <<>>]

\* ------------------------------------------------------------------------
\* The auth guard
\* ------------------------------------------------------------------------

\* @req_auth: the decorated method runs only while self.authd is true;
\* otherwise the call reports and returns without running it
req_auth == authd

\* ------------------------------------------------------------------------
\* load_config
\* ------------------------------------------------------------------------

\* lines 161-163: the keys of config_default absent from the entry are set
\* to the default's value (the same object, for the 'tracked' list)
BackFill(entry, default) ==
    [k \in (DOMAIN entry) \cup (DOMAIN default) |->
        IF k \in DOMAIN entry THEN entry[k] ELSE default[k]]

\* the keys line 166-168 reads after the load
ReportedKeys == {"refresh", "currency", "tracked"}

\* load_config: the config it leaves and the exception it ends with
\* ("none" if it returns)
load_config(loaded, old, default) ==
    IF loaded.file = "missing"
    THEN [config |-> old, raised |-> "FileNotFoundError"]
    ELSE LET new == IF loaded.file = "doc"
                    THEN IF DOMAIN loaded.entry # {}
                         THEN BackFill(loaded.entry, default)
                         ELSE loaded.entry
                    ELSE default
         IN  [config |-> new,
              raised |-> IF ReportedKeys \subseteq DOMAIN new
                         THEN "none" ELSE "KeyError"]

\* the list objects after a load: yaml builds a new list for a 'tracked' key
HeapAfterLoad(loaded) ==
    IF loaded.file = "doc" /\ "tracked" \in DOMAIN loaded.entry
    THEN [heap EXCEPT ![LoadedList] = StoredTracked]
    ELSE heap

\* ------------------------------------------------------------------------
\* start_threads / stop_threads / restart_threads, as functions of the
\* thread-side state (handles, global stop signal, Events, threads)
\* ------------------------------------------------------------------------

ThreadSide ==
    [pt |-> positions_thread, at |-> activity_thread,
     ot |-> orders_thread, tt |-> trackers_thread,
     stop |-> stop_threads, events |-> events, threads |-> threads,
     raised |-> "none"]

\* the generation of the next set of threads start_threads creates
NextGen(ts) == ((Len(ts.threads) - 1) \div Len(Kinds)) + 1

\* lines 220-221: a new Event only if the global is None
ResetStopSignal(ts) ==
    IF ts.stop = NoRef
    THEN [ts EXCEPT !.events = Append(@, FALSE), !.stop = Len(ts.events) + 1]
    ELSE ts

\* the already-running test with its second operand negated
AlreadyRunningNegated(ts) == ts.pt # NoRef /\ ts.tt = NoRef

\* lines 214-216: the already-running test
AlreadyRunning(ts) == ts.pt # NoRef /\ ts.tt # NoRef

\* start_threads (body, under the guard)
start_threads(ts, cfg) ==
    IF AlreadyRunning(ts)
    THEN ts
    ELSE LET ts1 == ResetStopSignal(ts)
             n   == Len(ts.threads)
             g   == NextGen(ts)
         IN  IF "refresh" \notin DOMAIN cfg
             THEN [ts1 EXCEPT !.raised = "KeyError"]
             ELSE [ts1 EXCEPT
                     !.threads = @ \o <<RepeatTimer("positions", cfg.refresh, g),
                                        RepeatTimer("activity", cfg.refresh, g),
                                        RepeatTimer("orders", cfg.refresh, g),
                                        RepeatTimer("trackers", cfg.refresh, g)>>,
                     !.pt = n + 1,
                     !.at = n + 2,
                     !.ot = n + 3,
                     !.tt = n + 4]

\* stop_threads (body, under the guard)
stop_threads_body(ts) ==
    IF ts.stop = NoRef
    THEN [ts EXCEPT !.raised = "AttributeError"]
    ELSE [ts EXCEPT !.events[ts.stop] = TRUE,
                    !.threads = Released(@, ts.stop),
                    !.pt = NoRef, !.at = NoRef, !.ot = NoRef, !.tt = NoRef,
                    !.stop = NoRef]

\* restart_threads (body): stop_threads(), then start_threads() unless the
\* first call raised
restart_threads(ts, cfg) ==
    LET ts1 == stop_threads_body(ts)
    IN  IF ts1.raised # "none" THEN ts1 ELSE start_threads(ts1, cfg)

\* the model's bounds on objects created
WithinBounds(ts) ==
    /\ Len(ts.events) <= MaxEvents
    /\ Len(ts.threads) <= 1 + Len(Kinds) * MaxGen

SetThreadSide(ts) ==
    /\ positions_thread' = ts.pt
    /\ activity_thread' = ts.at
    /\ orders_thread' = ts.ot
    /\ trackers_thread' = ts.tt
    /\ stop_threads' = ts.stop
    /\ events' = ts.events
    /\ threads' = ts.threads

\* ------------------------------------------------------------------------
\* Main-thread operations
\* ------------------------------------------------------------------------

\* _cmd__api / set_api
SetApi ==
    /\ ~exited
    /\ client' = "IGClient"
    /\ UNCHANGED <<authd, _id, config, config_default, heap, handles,
                   signalVars, threads, exited, session>>

\* login, client unset: self.client.login fails on None
LoginNoClient ==
    /\ ~exited
    /\ client = None
    /\ UNCHANGED <<sessionVars, handles, signalVars, threads, exited, session>>

\* login that stores the identifier before it looks at the client's answer
LoginRejectedStoresId(identifier) ==
    /\ ~exited
    /\ client # None
    /\ _id' = identifier
    /\ UNCHANGED <<authd, config, config_default, heap, client, handles,
                   signalVars, threads, exited, session>>

\* login, the client rejects the credentials
LoginRejected(identifier) ==
    /\ ~exited
    /\ client # None
    /\ UNCHANGED <<sessionVars, handles, signalVars, threads, exited, session>>

\* login, the client accepts the credentials
LoginAccepted(identifier, loaded) ==
    /\ ~exited
    /\ client # None
    /\ authd' = TRUE
    /\ _id' = identifier
    /\ session' = identifier
    /\ LET lc == load_config(loaded, config, config_default)
           ts == IF lc.raised # "none"
                 THEN [ThreadSide EXCEPT !.raised = lc.raised]
                 ELSE start_threads(ThreadSide, lc.config)
       IN  /\ WithinBounds(ts)
           /\ config' = lc.config
           /\ heap' = IF loaded.file = "missing" THEN heap ELSE HeapAfterLoad(loaded)
           /\ SetThreadSide(ts)
    /\ UNCHANGED <<config_default, client, exited>>

\* how login ends when the client accepts
LoginResult(loaded) ==
    LET lc == load_config(loaded, config, config_default)
    IN  IF lc.raised # "none" THEN lc.raised ELSE "True"

\* logout
Logout ==
    /\ ~exited
    /\ IF req_auth
       THEN /\ _id' = None
            /\ config' = EmptyDict
            /\ session' = None
       ELSE UNCHANGED <<_id, config, session>>
    /\ UNCHANGED <<authd, config_default, heap, client, handles, signalVars,
                   threads, exited>>

\* start_threads
StartThreads ==
    /\ ~exited
    /\ LET ts == IF req_auth THEN start_threads(ThreadSide, config) ELSE ThreadSide
       IN  /\ WithinBounds(ts)
           /\ SetThreadSide(ts)
    /\ UNCHANGED <<sessionVars, exited, session>>

\* stop_threads
StopThreads ==
    /\ ~exited
    /\ LET ts == IF req_auth THEN stop_threads_body(ThreadSide) ELSE ThreadSide
       IN  /\ SetThreadSide(ts)
    /\ UNCHANGED <<sessionVars, exited, session>>

\* restart_threads
RestartThreads ==
    /\ ~exited
    /\ LET ts == IF req_auth THEN restart_threads(ThreadSide, config) ELSE ThreadSide
       IN  /\ WithinBounds(ts)
           /\ SetThreadSide(ts)
    /\ UNCHANGED <<sessionVars, exited, session>>

\* exit_ctrl_q
ExitCtrlQ ==
    /\ ~exited
    /\ IF stop_threads = NoRef
       THEN UNCHANGED <<events, threads, exited>>
       ELSE /\ events' = [events EXCEPT ![stop_threads] = TRUE]
            /\ threads' = Released(threads, stop_threads)
            /\ exited' = TRUE
    /\ UNCHANGED <<sessionVars, handles, stop_threads, session>>

\* ------------------------------------------------------------------------
\* RepeatTimer.run, one thread t
\* ------------------------------------------------------------------------

SetPc(t, pc, ev) ==
    threads' = [threads EXCEPT ![t].pc = pc, ![t].ev = ev]

threadFrame == <<sessionVars, handles, signalVars, exited, session, last, cmdVars>>

\* line 58: the global is looked up and wait() is entered.  A None global
\* ends the thread with AttributeError; a set Event makes wait() return True
\* at once and ends the loop
ThreadLoad(t) ==
    /\ t \in Tids
    /\ threads[t].pc = "load"
    /\ IF stop_threads = NoRef
       THEN SetPc(t, "dead", NoRef)
       ELSE IF events[stop_threads]
            THEN SetPc(t, "dead", NoRef)
            ELSE SetPc(t, "wait", stop_threads)
    /\ UNCHANGED threadFrame

\* line 58: wait() times out; line 60: the action is invoked
ThreadTimeout(t) ==
    /\ t \in Tids
    /\ threads[t].pc = "wait"
    /\ ~events[threads[t].ev]
    /\ SetPc(t, "func", NoRef)
    /\ UNCHANGED threadFrame

\* the action can raise: a refresh action past its guard calls the client
\* and reads config; update_status does neither
CanRaise(t) == threads[t].func # "status" /\ req_auth

\* the action always raises: update_trackers reads config['tracked']
MustRaise(t) ==
    threads[t].func = "trackers" /\ req_auth /\ "tracked" \notin DOMAIN config

\* line 60: the action returns; back to line 58
ThreadFuncReturn(t) ==
    /\ t \in Tids
    /\ threads[t].pc = "func"
    /\ ~MustRaise(t)
    /\ SetPc(t, "load", NoRef)
    /\ UNCHANGED threadFrame

\* line 60: the action raises; nothing in run() catches it
ThreadFuncRaise(t) ==
    /\ t \in Tids
    /\ threads[t].pc = "func"
    /\ CanRaise(t)
    /\ SetPc(t, "dead", NoRef)
    /\ UNCHANGED threadFrame

ThreadStep(t) ==
    \/ ThreadLoad(t)
    \/ ThreadTimeout(t)
    \/ ThreadFuncReturn(t)
    \/ ThreadFuncRaise(t)

\* ------------------------------------------------------------------------
\* How each main-thread call ends (from the state it is made in)
\* ------------------------------------------------------------------------

Raised(ts) == IF ts.raised # "none" THEN ts.raised ELSE "None"

LogoutResult == IF req_auth THEN "AttributeError" ELSE "None"

StartThreadsResult ==
    IF req_auth THEN Raised(start_threads(ThreadSide, config)) ELSE "None"

StopThreadsResult ==
    IF req_auth THEN Raised(stop_threads_body(ThreadSide)) ELSE "None"

RestartThreadsResult ==
    IF req_auth THEN Raised(restart_threads(ThreadSide, config)) ELSE "None"

ExitResult == IF stop_threads = NoRef THEN "AttributeError" ELSE "None"

\* a call, with its record in the history variable
Call(A, op, res) == A /\ last' = [op |-> op, res |-> res] /\ UNCHANGED cmdVars

\* ------------------------------------------------------------------------
\* Specifications
\* ------------------------------------------------------------------------

\* The main thread alone: every operation, with every input, each call
\* recorded in `last`.  No RepeatTimer thread is scheduled.
SessionNext ==
    \/ Call(SetApi, "api", "None")
    \/ Call(LoginNoClient, "login", "AttributeError")
    \/ \E identifier \in Identifiers :
          Call(LoginRejected(identifier), "login", "False")
    \/ \E identifier \in Identifiers, loaded \in Loaded :
          Call(LoginAccepted(identifier, loaded), "login", LoginResult(loaded))
    \/ Call(Logout, "logout", LogoutResult)
    \/ Call(StartThreads, "start_threads", StartThreadsResult)
    \/ Call(StopThreads, "stop_threads", StopThreadsResult)
    \/ Call(RestartThreads, "restart_threads", RestartThreadsResult)
    \/ Call(ExitCtrlQ, "exit", ExitResult)

SessionSpec == Init /\ [][SessionNext]_vars

\* The main thread and the RepeatTimer threads, interleaved.  One account,
\* one store content; calls are not recorded.
SpecIdentifiers == {"u1"}

SpecLoaded == {[file |-> "empty"]}

\* a call that leaves no record
Quiet(A) == A /\ UNCHANGED <<last, cmdVars>>

Next ==
    \/ Quiet(SetApi)
    \/ Quiet(LoginNoClient)
    \/ \E identifier \in SpecIdentifiers : Quiet(LoginRejected(identifier))
    \/ \E identifier \in SpecIdentifiers, loaded \in SpecLoaded :
          Quiet(LoginAccepted(identifier, loaded))
    \/ Quiet(Logout)
    \/ Quiet(StartThreads)
    \/ Quiet(StopThreads)
    \/ Quiet(RestartThreads)
    \/ Quiet(ExitCtrlQ)
    \/ \E t \in ThreadIds : ThreadStep(t)

Spec == Init /\ [][Next]_vars

\* threads are scheduled: a timed wait ends, an action returns or raises
Fairness == \A t \in ThreadIds : WF_vars(ThreadStep(t))

FairSpec == Spec /\ Fairness

\* ------------------------------------------------------------------------
\* The command interpreter: strings, the _cmd__ handlers and parse
\* ------------------------------------------------------------------------

\* the longest tracked list a track command may build
MaxTracked == 2

\* the longest alias expansion an alias command may store, in words and
\* spaces
MaxText == 3

\* A string is a sequence of words and single spaces; no two words are
\* adjacent.  A token is a word, or "" (the empty string).
SP == " "

\* str.split(): the words of a string, runs of whitespace dropped
Split(s) == SelectSeq(s, LAMBDA x : x # SP)

\* str.split(' '): the pieces between single spaces, empty pieces kept
RECURSIVE SplitSpace(_)
SplitSpace(s) ==
    IF s = <<>> THEN <<"">>
    ELSE IF Head(s) = SP THEN <<"">> \o SplitSpace(Tail(s))
    ELSE IF Tail(s) = <<>> THEN <<Head(s)>>
    ELSE <<Head(s)>> \o SplitSpace(Tail(Tail(s)))

\* the characters of one token
Chars(t) == IF t = "" THEN <<>> ELSE <<t>>

\* ' '.join(tokens)
RECURSIVE Join(_)
Join(tokens) ==
    IF tokens = <<>> THEN <<>>
    ELSE IF Len(tokens) = 1 THEN Chars(tokens[1])
    ELSE Chars(tokens[1]) \o <<SP>> \o Join(Tail(tokens))

\* the methods named _cmd__<name>
Commands == {"update", "api", "login", "save", "track", "stoptrack",
             "search", "buy", "alias"}

\* the epics the remote account knows
Markets == {"e1", "e2"}

\* how the client rejects an epic it does not know
Rejections == {"NotFoundError", "BadRequestError"}

\* the line the guard reports instead of calling a guarded method
AuthRequired == <<"AuthRequiredError">>

\* everything but the history variables
progVars == <<sessionVars, handles, signalVars, threads, exited, session>>

\* the record of a handler call: how it ended, the lines it appended with
\* msg_out, the refresh methods and client methods it called
Report(h, args, res, msgs, calls) ==
    /\ last' = [op |-> h, res |-> res]
    /\ obs' = [handler |-> h, args |-> args, msgs |-> msgs, calls |-> calls]

\* _cmd__update
cmd_update(args) ==
    /\ ~exited
    /\ UNCHANGED progVars
    /\ IF ~req_auth
       THEN Report("update", args, "None", <<AuthRequired>>, <<>>)
       ELSE IF "tracked" \notin DOMAIN config
            THEN Report("update", args, "KeyError", <<>>,
                        <<<<"update_positions">>, <<"update_orders">>,
                          <<"update_trackers">>>>)
            ELSE Report("update", args, "None",
                        <<<<"Updated positions, orders and trackers">>>>,
                        <<<<"update_positions">>, <<"update_orders">>,
                          <<"update_trackers">>>>)

\* _cmd__api
cmd_api(args) ==
    IF Len(args) # 1
    THEN /\ ~exited
         /\ UNCHANGED progVars
         /\ Report("api", args, "None",
                   <<<<"Invalid syntax, expected: api <key>">>>>, <<>>)
    ELSE /\ SetApi
         /\ Report("api", args, "None", <<<<"Updated API key">>>>,
                   <<<<"set_api", args[1]>>>>)

\* the lines load_config and _cmd__login append when the client accepts
LoginMsgs(identifier, loaded) ==
    <<<<"Loading ", identifier, " configuration...">>>> \o
    (IF load_config(loaded, config, config_default).raised = "none"
     THEN <<<<"... Refresh rate, Currency, Added trackers">>,
            <<"Login successful">>>>
     ELSE <<>>)

\* _cmd__login
cmd_login(args) ==
    IF Len(args) # 2
    THEN /\ ~exited
         /\ UNCHANGED progVars
         /\ Report("login", args, "None",
                   <<<<"Invalid syntax, expected: login: <username> <password>">>>>,
                   <<>>)
    ELSE \/ /\ LoginNoClient
            /\ Report("login", args, "AttributeError", <<>>, <<>>)
         \/ /\ LoginRejected(args[1])
            /\ Report("login", args, "None", <<<<"Login failed">>>>,
                      <<<<"client.login", args[1]>>>>)
         \/ \E loaded \in Loaded :
               /\ LoginAccepted(args[1], loaded)
               /\ Report("login", args,
                         IF LoginResult(loaded) = "True"
                         THEN "None" ELSE LoginResult(loaded),
                         LoginMsgs(args[1], loaded),
                         <<<<"client.login", args[1]>>>>)

\* _cmd__save and write_config; the file is there or not
cmd_save(args, file) ==
    /\ ~exited
    /\ UNCHANGED progVars
    /\ IF ~req_auth
       THEN Report("save", args, "None",
                   <<AuthRequired, <<"Configuration saved">>>>, <<>>)
       ELSE IF file = "missing"
            THEN Report("save", args, "FileNotFoundError", <<>>, <<>>)
            ELSE Report("save", args, "None", <<<<"Configuration saved">>>>,
                        <<<<"yaml.dump", _id>>>>)

\* the tracked list a handler starts from
Tracked == IF "tracked" \in DOMAIN config THEN heap[config.tracked] ELSE <<>>

\* add_tracker, on the running result of a batch
add_tracker(tracker, acc, rej) ==
    IF ~req_auth
    THEN [acc EXCEPT !.msgs = Append(@, AuthRequired)]
    ELSE LET called == [acc EXCEPT !.calls = Append(@, <<"get_market", tracker>>)]
         IN  IF tracker \in Markets
             THEN IF "tracked" \notin DOMAIN config
                  THEN [called EXCEPT !.raised = "KeyError"]
                  ELSE [called EXCEPT !.tracked = Append(@, tracker)]
             ELSE IF rej = "NotFoundError"
                  THEN [called EXCEPT !.msgs =
                           Append(@, <<"Unable to find market: ", tracker>>)]
                  ELSE [called EXCEPT !.raised = rej]

\* the for loop of _cmd__track: it ends at the first exception
RECURSIVE add_trackers(_, _, _)
add_trackers(args, acc, rej) ==
    IF args = <<>> \/ acc.raised # "none"
    THEN acc
    ELSE add_trackers(Tail(args), add_tracker(Head(args), acc, rej), rej)

\* list.remove: the first occurrence
RECURSIVE Remove(_, _)
Remove(lst, x) ==
    IF lst = <<>> THEN <<>>
    ELSE IF Head(lst) = x THEN Tail(lst)
    ELSE <<Head(lst)>> \o Remove(Tail(lst), x)

\* del_tracker, on the running result of a batch
del_tracker(tracker, acc) ==
    IF ~req_auth
    THEN [acc EXCEPT !.msgs = Append(@, AuthRequired)]
    ELSE IF "tracked" \notin DOMAIN config
         THEN [acc EXCEPT !.raised = "KeyError"]
         ELSE [acc EXCEPT !.tracked = Remove(@, tracker)]

\* the for loop of _cmd__stoptrack
RECURSIVE del_trackers(_, _)
del_trackers(args, acc) ==
    IF args = <<>> \/ acc.raised # "none"
    THEN acc
    ELSE del_trackers(Tail(args), del_tracker(Head(args), acc))

\* a batch before its first item
Batch == [tracked |-> Tracked, msgs |-> <<>>, calls |-> <<>>, raised |-> "none"]

\* the end of _cmd__track / _cmd__stoptrack: the list object is the one
\* config['tracked'] names; the closing line is appended if nothing raised
EndBatch(h, args, r, done) ==
    /\ Len(r.tracked) <= MaxTracked
    /\ heap' = IF "tracked" \in DOMAIN config
               THEN [heap EXCEPT ![config.tracked] = r.tracked]
               ELSE heap
    /\ Report(h, args, Raised(r),
              IF r.raised = "none" THEN Append(r.msgs, done) ELSE r.msgs,
              r.calls)
    /\ UNCHANGED <<authd, _id, config, config_default, client, handles,
                   signalVars, threads, exited, session>>

\* _cmd__track
cmd_track(args, rej) ==
    /\ ~exited
    /\ EndBatch("track", args, add_trackers(args, Batch, rej),
                <<"Added tracked market(s)">>)

\* _cmd__stoptrack
cmd_stoptrack(args) ==
    /\ ~exited
    /\ EndBatch("stoptrack", args, del_trackers(args, Batch),
                <<"Removed tracked market(s)">>)

\* _cmd__search
cmd_search(args) ==
    /\ ~exited
    /\ UNCHANGED progVars
    /\ IF client = None
       THEN Report("search", args, "AttributeError", <<>>, <<>>)
       ELSE IF args = <<>>
            THEN Report("search", args, "IndexError", <<>>, <<>>)
            ELSE Report("search", args, "None", <<<<"Found epics: ">>>>,
                        <<<<"search_market", args[1]>>>>)

\* _cmd__buy
cmd_buy(args, rej) ==
    /\ ~exited
    /\ UNCHANGED progVars
    /\ IF Len(args) # 2
       THEN Report("buy", args, "ValueError", <<>>, <<>>)
       ELSE IF "currency" \notin DOMAIN config
       THEN Report("buy", args, "KeyError", <<>>, <<>>)
       ELSE IF client = None
       THEN Report("buy", args, "AttributeError", <<>>, <<>>)
       ELSE IF args[2] \in Markets
       THEN Report("buy", args, "None",
                   <<<<"Submitted position on ", args[2], " @ ", args[1],
                       " ", config.currency>>>>,
                   <<<<"get_market", args[2]>>,
                     <<"add_position", args[2], args[1], config.currency>>>>)
       ELSE IF rej = "BadRequestError"
       THEN Report("buy", args, "None",
                   <<<<"Unable to find market: ", args[2]>>>>,
                   <<<<"get_market", args[2]>>>>)
       ELSE Report("buy", args, rej, <<>>, <<<<"get_market", args[2]>>>>)

\* dict[key] = value
Put(d, key, value) ==
    [k \in (DOMAIN d) \cup {key} |-> IF k = key THEN value ELSE d[k]]

\* _cmd__alias
cmd_alias(args) ==
    /\ ~exited
    /\ IF "alias" \notin DOMAIN config
       THEN /\ UNCHANGED progVars
            /\ Report("alias", args, "KeyError", <<>>, <<>>)
       ELSE IF args = <<>>
       THEN /\ UNCHANGED progVars
            /\ Report("alias", args, "IndexError", <<>>, <<>>)
       ELSE /\ Len(Join(Tail(args))) <= MaxText
            /\ config' = [config EXCEPT
                            !.alias = Put(@, args[1], Join(Tail(args)))]
            /\ Report("alias", args, "None",
                      <<<<"Added alias: ", args[1], " = ">> \o Join(Tail(args))>>,
                      <<>>)
            /\ UNCHANGED <<authd, _id, config_default, heap, client, handles,
                           signalVars, threads, exited, session>>

\* command(*args[1:]) for the method _cmd__<h>, with what the client and
\* the file system answer
Handler(h, args) ==
    \/ h = "update" /\ cmd_update(args)
    \/ h = "api" /\ cmd_api(args)
    \/ h = "login" /\ cmd_login(args)
    \/ h = "save" /\ \E file \in {"missing", "doc"} : cmd_save(args, file)
    \/ h = "track" /\ \E rej \in Rejections : cmd_track(args, rej)
    \/ h = "stoptrack" /\ cmd_stoptrack(args)
    \/ h = "search" /\ cmd_search(args)
    \/ h = "buy" /\ \E rej \in Rejections : cmd_buy(args, rej)
    \/ h = "alias" /\ cmd_alias(args)

\* lines 281-286: each token that is an alias key gives way to the pieces
\* of its expansion, the others stay
RECURSIVE Expand(_, _)
Expand(args, alias) ==
    IF args = <<>> THEN <<>>
    ELSE (IF Head(args) \in DOMAIN alias
          THEN SplitSpace(alias[Head(args)])
          ELSE <<Head(args)>>) \o Expand(Tail(args), alias)

\* parse ends before it reaches a handler: with an exception, or after the
\* lines it appended; args is the token list it looked a handler up with
ParseEnds(args, res, msgs) ==
    /\ ~exited
    /\ UNCHANGED progVars
    /\ Report("parse", args, res, msgs, <<>>)

\* parse
Parse(text) ==
    /\ line' = [via |-> "parse", text |-> text]
    /\ IF Split(text) = <<>>
       THEN ParseEnds(<<>>, "IndexError", <<>>)
       ELSE IF "alias" \notin DOMAIN config
       THEN ParseEnds(<<>>, "KeyError", <<>>)
       ELSE LET args == Expand(Split(text), config.alias)
            IN  IF args[1] \notin Commands
                THEN ParseEnds(args, "None",
                               <<<<"Unrecognised command: ", args[1]>>>>)
                ELSE Handler(args[1], Tail(args))

\* a handler called without parse
Direct(h, args) ==
    /\ line' = [via |-> "call", text |-> <<>>]
    /\ Handler(h, args)

\* the handler calls made: the handler's name, then its arguments
Calls ==
    {<<"update">>, <<"api">>, <<"api", "k">>, <<"login", "u1">>,
     <<"login", "u1", "pw">>, <<"save">>, <<"track", "e1", "bad", "e2">>,
     <<"stoptrack", "e1">>, <<"search">>, <<"search", "t">>,
     <<"buy", "1">>, <<"buy", "1", "e1">>, <<"buy", "1", "bad">>,
     <<"alias">>, <<"alias", "a">>, <<"alias", "a", "p", "c">>}

\* the input lines entered: the empty line, a blank line, and token lists
\* with single spaces between the tokens
Lines ==
    {<<>>, <<SP>>} \cup
    {Join(t) : t \in {<<"foo">>, <<"a">>, <<"p">>, <<"update">>,
                        <<"login", "u1", "pw">>, <<"alias", "a">>,
                        <<"track", "e1", "bad", "e2">>}}

\* The main thread alone, at the command level: input lines through parse,
\* handlers called directly, and logout.
CmdNext ==
    \/ \E text \in Lines : Parse(text)
    \/ \E t \in Calls : Direct(t[1], Tail(t))
    \/ Call(Logout, "logout", LogoutResult)

CmdSpec == Init /\ [][CmdNext]_vars

TypeOK ==
    /\ authd \in BOOLEAN
    /\ stop_threads \in 0..Len(events)
    /\ \A t \in Tids : threads[t].pc \in {"load", "wait", "func", "dead"}
    /\ \A t \in Tids : threads[t].pc = "wait" =>
          threads[t].ev = stop_threads /\ ~events[threads[t].ev]

\* ------------------------------------------------------------------------
\* Properties
\* ------------------------------------------------------------------------

\* the number of thread generations start_threads has created
CurGen == NextGen(ThreadSide) - 1

Refresh(t) == t \in Tids /\ threads[t].func # "status"

HandleSet == {positions_thread, activity_thread, orders_thread, trackers_thread}

\* a refresh thread whose generation has been stopped: no handle holds it
Stale(t) == Refresh(t) /\ t \notin HandleSet

LiveOf(kind) == {t \in Tids : threads[t].func = kind /\ Alive(t)}

\* C1: a refresh thread of generation N never invokes its action (leaves
\* wait() by timeout and calls func) once a later generation has been started.
C1_GenerationIsolation ==
    [][\A t \in ThreadIds :
          (Refresh(t) /\ threads[t].pc = "wait" /\ threads'[t].pc = "func")
              => threads[t].gen = CurGen]_vars

\* C2: in every reachable state at most one RepeatTimer loop is alive for
\* each of positions, activity, orders and trackers.
C2_OneSetAlive ==
    \A kind \in KindSet : Cardinality(LiveOf(kind)) <= 1

\* C3: every refresh thread of a stopped generation eventually terminates
\* (and, a dead thread having no step, stays terminated).
C3_StoppedThreadsTerminate ==
    \A t \in ThreadIds :
        (t \in Tids /\ Stale(t)) ~> (t \in Tids /\ ~Alive(t))

\* C4: logout() called while authenticated returns and leaves authd false,
\* _id None, config empty, the four handles None and the stop signal of the
\* running threads set.
C4_LogoutLeavesLoggedOut ==
    [][(authd /\ last'.op = "logout")
          => /\ last'.res = "None"
             /\ authd' = FALSE
             /\ _id' = None
             /\ config' = EmptyDict
             /\ HandleSet' = {NoRef}
             /\ stop_threads # NoRef => events'[stop_threads]]_vars

\* C5: restart_threads() from a state with running tasks leaves four fresh
\* thread handles and a new, unset stop signal, the state stop_threads()
\* followed by start_threads() gives; the previous stop signal is set, and
\* no Event that is set is ever cleared.
C5_RestartIsStopStart ==
    [][/\ (/\ authd
           /\ positions_thread # NoRef
           /\ trackers_thread # NoRef
           /\ last'.op = "restart_threads")
          => /\ HandleSet' \cap (HandleSet \cup {NoRef}) = {}
             /\ Cardinality(HandleSet') = Len(Kinds)
             /\ \A t \in HandleSet' : t \notin Tids /\ threads'[t].pc = "load"
             /\ stop_threads' \notin {NoRef, stop_threads}
             /\ ~events'[stop_threads']
             /\ events'[stop_threads]
             /\ LET ts == start_threads(stop_threads_body(ThreadSide), config)
                IN  /\ handles' = <<ts.pt, ts.at, ts.ot, ts.tt>>
                    /\ stop_threads' = ts.stop
                    /\ events' = ts.events
                    /\ threads' = ts.threads
       /\ \A e \in 1..Len(events) : events[e] => events'[e]]_vars

\* C6: start_threads() called while the refresh tasks are running (directly,
\* or by a successful login while authenticated) creates no thread and leaves
\* the handles, the stop signal and the Events as they were.
C6_StartWhileRunningIsNoOp ==
    [][(/\ authd
        /\ positions_thread # NoRef
        /\ trackers_thread # NoRef
        /\ \/ last'.op = "start_threads"
           \/ last' = [op |-> "login", res |-> "True"])
          => UNCHANGED <<threads, handles, stop_threads, events>>]_vars

\* a successful login that found the tasks running: the running positions
\* thread was created with another refresh interval than the config now has
C6_Witness ==
    /\ last = [op |-> "login", res |-> "True"]
    /\ positions_thread # NoRef
    /\ Alive(positions_thread)
    /\ threads[positions_thread].interval # config["refresh"]

\* C7: a login the client rejects returns False and changes none of authd,
\* _id, config, the handles, the stop signal, the Events and the threads.
C7_RejectedLoginMutatesNothing ==
    [][last' = [op |-> "login", res |-> "False"]
          => UNCHANGED <<authd, _id, config, handles, stop_threads, events,
                         threads>>]_vars

\* a rejected login, before any session and during one
C7_Witness ==
    /\ last = [op |-> "login", res |-> "False"]
    /\ authd
    /\ positions_thread # NoRef

\* C8: a RepeatTimer thread whose action raises is not terminated by it: no
\* thread goes from inside its action to terminated.
C8_RaiseKeepsLoop ==
    [][\A t \in ThreadIds :
          (t \in Tids /\ threads[t].pc = "func") => threads'[t].pc # "dead"]_vars

\* C9: the status thread leaves its loop only when the exit handler has run.
C9_StatusIndependent ==
    ~Alive(1) => exited

\* C10: the rendered status is 'Offline' exactly when no session is
\* authenticated, and otherwise 'Online | ID: <id>' with the identifier of
\* the most recent successful login.
C10_StatusMatchesSession ==
    status = IF session = None
             THEN <<"Offline", "|">>
             ELSE <<"Online", "|", "ID:", session>>

\* ------------------------------------------------------------------------
\* Properties of the command interpreter
\* ------------------------------------------------------------------------

\* the commands that need an authenticated session
AuthCommands == {"update", "save", "track", "stoptrack", "alias"}

\* the last handler call appended the line m
Appended(m) == \E i \in 1..Len(obs.msgs) : obs.msgs[i] = m

\* C11: a call of an auth-required command (update, save, track, stoptrack,
\* alias) made while logged out leaves config unchanged, appends an
\* auth-required line to the operator log and does not raise.
C11_AuthRequiredWhileLoggedOut ==
    [][(~authd /\ last'.op \in AuthCommands) =>
          /\ config' = config
          /\ last'.res = "None"
          /\ Appended(AuthRequired)']_vars

\* the step is a call of parse
ParseStep == line'.via = "parse" /\ last'.op # "logout"

\* C12: in every reachable session state (logged out with an empty config,
\* authenticated with a loaded config) and for every input line, the empty
\* line included, parse ends without an exception before the handler: it
\* reaches a command handler or appends a line to the operator log; the
\* line 'login <user> <pass>' entered while logged out reaches _cmd__login.
C12_ParseCompletes ==
    [][ParseStep =>
          /\ \/ obs'.handler \in Commands
             \/ last'.res = "None" /\ obs'.msgs # <<>>
          /\ (~authd /\ line'.text = Join(<<"login", "u1", "pw">>)) =>
                obs'.handler = "login"]_vars

\* the keys the configuration of a session is said to hold
ConfigKeys == {"refresh", "currency", "tracked", "alias"}

\* C13: after a successful login (the client accepts and login returns
\* True), whatever the store held (an empty file, an entry missing some
\* keys), config holds all of refresh, currency, tracked and alias.
C13_LoginFillsDefaults ==
    [][last' = [op |-> "login", res |-> "True"] =>
          ConfigKeys \subseteq DOMAIN config']_vars

\* the expansion as stated: a token that is an alias key gives way to the
\* whitespace-split tokens of its expansion, in one pass
RECURSIVE ExpandWhitespace(_, _)
ExpandWhitespace(args, alias) ==
    IF args = <<>> THEN <<>>
    ELSE (IF Head(args) \in DOMAIN alias
          THEN Split(alias[Head(args)])
          ELSE <<Head(args)>>) \o ExpandWhitespace(Tail(args), alias)

\* the token list the last parse call looked a handler up with
Dispatched ==
    IF obs.handler \in Commands THEN <<obs.handler>> \o obs.args ELSE obs.args

\* C14: alias expansion is single-pass: where config holds aliases, each
\* token of the input that is an alias key is replaced in place by the
\* whitespace-split tokens of its expansion, the tokens of an expansion are
\* not expanded again, and the handler is looked up by the first token of
\* the expanded list.
C14_AliasSinglePass ==
    [][(ParseStep /\ "alias" \in DOMAIN config) =>
          Dispatched' = ExpandWhitespace(Split(line'.text), config.alias)]_vars

\* the epics of a batch the client accepts
Accepted(args) == SelectSeq(args, LAMBDA e : e \in Markets)

\* C15: a batch 'track e1 ... en' given while authenticated (config holding
\* a tracked list) appends the epics the client accepts to the tracked
\* list in input order and skips each epic the client rejects (NotFound or
\* BadRequest) with a line in the operator log: a rejected epic does not
\* keep the later ones from being added, and the command does not raise.
C15_TrackBatch ==
    [][(authd /\ "tracked" \in DOMAIN config /\ last'.op = "track") =>
          /\ last'.res = "None"
          /\ heap'[config.tracked] =
                heap[config.tracked] \o Accepted(obs'.args)
          /\ \A i \in 1..Len(obs'.args) :
                obs'.args[i] \notin Markets =>
                   \E j \in 1..Len(obs'.msgs) :
                      obs'.msgs[j] =
                         <<"Unable to find market: ", obs'.args[i]>>]_vars

\* the number of arguments the handlers with a fixed count take
Arity == [api |-> 1, login |-> 2, search |-> 1, buy |-> 2]

\* a call with a wrong number of arguments: not the fixed count, or alias
\* without a name
WrongArity(h, args) ==
    \/ h \in DOMAIN Arity /\ Len(args) # Arity[h]
    \/ h = "alias" /\ args = <<>>

\* C16: a handler called with a wrong number of arguments (api, login,
\* search, buy, alias; too few or too many) appends a line to the operator
\* log, changes no state, makes no external call and does not raise; stated
\* here for the calls made in an authenticated session whose config holds
\* every key.
C16_WrongArityReported ==
    [][(/\ authd /\ ConfigKeys \subseteq DOMAIN config
        /\ last'.op = obs'.handler
        /\ WrongArity(obs'.handler, obs'.args)) =>
          /\ last'.res = "None"
          /\ obs'.msgs # <<>>
          /\ obs'.calls = <<>>
          /\ UNCHANGED progVars]_vars

\* the first token of a non-blank line after alias expansion; a config
\* without aliases expands nothing
FirstToken(text, cfg) ==
    IF "alias" \in DOMAIN cfg
    THEN Expand(Split(text), cfg.alias)[1]
    ELSE Split(text)[1]

\* C17: an input line whose first token after alias expansion is no command
\* name appends a line with that token to the operator log, calls no
\* handler and changes no session, config or thread state.
C17_UnknownCommandReported ==
    [][(/\ ParseStep
        /\ Split(line'.text) # <<>>
        /\ FirstToken(line'.text, config) \notin Commands) =>
          /\ obs'.handler = "parse"
          /\ \E j \in 1..Len(obs'.msgs) :
                obs'.msgs[j] = <<"Unrecognised command: ",
                                 FirstToken(line'.text, config)>>
          /\ UNCHANGED progVars]_vars

\* how many times the last handler call called the method m
Count(m) == Cardinality({i \in 1..Len(obs.calls) : obs.calls[i] = <<m>>})

\* the four refresh methods
RefreshMethods ==
    {"update_positions", "update_activity", "update_orders", "update_trackers"}

\* C18: 'update' given while authenticated (config holding a tracked list)
\* runs each of the four refresh methods (positions, orders, trackers,
\* activity) exactly once before it reports completion.
C18_UpdateRunsAllFour ==
    [][(authd /\ "tracked" \in DOMAIN config /\ last'.op = "update") =>
          /\ last'.res = "None"
          /\ \A m \in RefreshMethods : Count(m)' = 1
          /\ obs'.msgs # <<>>]_vars

\* C19: the exit handler can run in every reachable state (before login,
\* while the threads run, after stop_threads() with no start after it,
\* after a restart): it does not fail, and it leaves the stop signal set,
\* so that every thread still running sees it and ends.
C19_ExitNeverFails ==
    [][last'.op = "exit" =>
          /\ last'.res = "None"
          /\ exited'
          /\ stop_threads' # NoRef
          /\ events'[stop_threads']]_vars

\* C20: the class-level default configuration is not changed by any
\* sequence of login, track, stoptrack and logout: its tracked list stays
\* empty, so a session that takes the defaults starts with no tracked
\* market.
C20_DefaultsNeverChange ==
    /\ config_default = ConfigDefaultInit
    /\ heap[config_default.tracked] = <<>>

============================================================================
